---- MODULE Spec2Model ----
(***************************************************************************)
(* darglint IntegrityChecker (src/darglint/integrity_checker.py).          *)
(*                                                                         *)
(* One checker owns a thread pool of max_workers threads.  schedule()      *)
(* submits run_checks(function) to the pool; every run writes the shared   *)
(* field self.docstring, then reads it again in every check of the battery *)
(* and appends findings to the shared list self.errors.  get_error_report  *)
(* shuts the pool down (waiting for the runs) and hands self.errors to the *)
(* report.                                                                 *)
(*                                                                         *)
(* Granularity: one step per statement of run_checks that touches the      *)
(* shared field self.docstring (the assignment, and each check that reads  *)
(* it).  list.append is atomic under the interpreter lock.                 *)
(***************************************************************************)
EXTENDS Integers, Sequences, FiniteSets, TLC

VARIABLES
    program,       \* which file is being checked (names its functions)
    config,        \* self.config
    raise_errors,  \* self.raise_errors
    errors,        \* self.errors
    _sorted,       \* self._sorted
    docstring,     \* self.docstring (one field shared by all runs)
    st,            \* per function: position of its run
    queue,         \* executor work queue (submitted, not yet started)
    shutdown,      \* executor._shutdown
    faults,        \* runs that ended with an exception (kept in the future)
    caller,        \* position of the thread calling get_error_report
    reports,       \* the error lists handed to ErrorReport, one per call
    nsched,        \* number of schedule() calls made so far
    rejected       \* functions whose schedule() call raised RuntimeError

vars == <<program, config, raise_errors, errors, _sorted, docstring, st,
          queue, shutdown, faults, caller, reports, nsched, rejected>>

----------------------------------------------------------------------------
(* Bounds and program constants *)

MaxSched == 2        \* schedule() calls per behaviour
MaxReports == 2      \* get_error_report() calls per behaviour
max_workers == 4     \* ThreadPoolExecutor(max_workers=4)

NULL == "None"

GOOGLE == "GOOGLE"
SPHINX == "SPHINX"

(* any style value run_checks has no branch for (lines 106-114) *)
OTHER_STYLE == "OTHER"

SHORT_DESCRIPTION == "SHORT_DESCRIPTION"
FULL_DESCRIPTION == "FULL_DESCRIPTION"

(* error_code of each error class: the class name stands for the code *)
MissingParameterError == "MissingParameter"
ExcessParameterError == "ExcessParameter"
ParameterTypeMismatchError == "ParameterTypeMismatch"
ParameterTypeMissingError == "ParameterTypeMissing"
MissingReturnError == "MissingReturn"
ExcessReturnError == "ExcessReturn"
ReturnTypeMismatchError == "ReturnTypeMismatch"
MissingYieldError == "MissingYield"
ExcessYieldError == "ExcessYield"
MissingRaiseError == "MissingRaise"
ExcessRaiseError == "ExcessRaise"
ExcessVariableError == "ExcessVariable"
StyleError == "StyleViolation"

----------------------------------------------------------------------------
(* Data *)

Range(s) == {s[i] : i \in DOMAIN s}

(* All enumeration orders of a finite set: iterating a Python set of
   strings visits its members in an order the program does not control. *)
RECURSIVE Orders(_)
Orders(S) ==
    IF S = {} THEN {<<>>}
    ELSE UNION {{<<x>> \o t : t \in Orders(S \ {x})} : x \in S}

NoNoqas == [c \in {} |-> {}]

(* function.docstring is None *)
NoDoc == [kind |-> NULL, arguments |-> <<>>, returns |-> FALSE, return_type |-> NULL, yields |-> FALSE, raises |-> <<>>, variables |-> <<>>, noqas |-> NoNoqas, ignore_all |-> FALSE, satisfies |-> {}, style_errors |-> <<>>, malformed |-> FALSE]

(* A docstring text, described by what the parser finds in it: the items
   and types of the Arguments section, whether Returns and Yields sections
   are present, the return type, the items of the Raises and Variables
   sections, the noqa lookup (error code -> names, empty = all), the
   ignore-all flag, the strictness levels it satisfies, the style errors
   the parser collected, and whether parsing it raises. *)
EmptyDoc == [NoDoc EXCEPT !.kind = "text"]

Arg(name, type) == [name |-> name, type |-> type]

(* A FunctionDescription without arguments, body or docstring *)
EmptyFunction == [lineno |-> 1, docstring |-> NoDoc, argument_names |-> <<>>, argument_types |-> <<>>, return_type |-> NULL, has_return |-> FALSE, has_yield |-> FALSE, raises |-> {}, variables |-> {}]

Configuration(ignore, style, strictness) == [ignore |-> ignore, style |-> style, strictness |-> strictness]

(* self.docstring = None (the class attribute) *)
NoView == [src |-> 0, style |-> NULL, doc |-> NoDoc]

(* Docstring.from_google: the Google grammar has no Variables section *)
from_google(f, doc) ==
    [src |-> f, style |-> GOOGLE, doc |-> [doc EXCEPT !.variables = <<>>]]

(* Docstring.from_sphinx *)
from_sphinx(f, doc) ==
    [src |-> f, style |-> SPHINX, doc |-> doc]

(* Accessors of the documentation view *)
get_items_arguments(view) ==
    [i \in DOMAIN view.doc.arguments |-> view.doc.arguments[i].name]
get_types_arguments(view) ==
    [i \in DOMAIN view.doc.arguments |-> view.doc.arguments[i].type]
get_noqas(view) == view.doc.noqas

Finding(code, f, name, expected, actual) ==
    [code |-> code, function |-> f, name |-> name,
     expected |-> expected, actual |-> actual]

----------------------------------------------------------------------------
(* The functions of the checked file and the configurations *)

(* def f1(a, b), line 7: nothing documented, MissingParameter noqa'd for a *)
F1 == [EmptyFunction EXCEPT !.lineno = 7, !.argument_names = <<"a", "b">>, !.argument_types = <<NULL, NULL>>, !.docstring = [EmptyDoc EXCEPT !.noqas = [c \in {MissingParameterError} |-> {"a"}]]]

(* def f2(x: int), line 3: documented as x: str, and a y: int it does not
   take, with every ExcessParameter noqa'd *)
F2 == [EmptyFunction EXCEPT !.lineno = 3, !.argument_names = <<"x">>, !.argument_types = <<"int">>, !.docstring = [EmptyDoc EXCEPT !.arguments = <<Arg("x", "str"), Arg("y", "int")>>, !.noqas = [c \in {ExcessParameterError} |-> {}]]]

(* a generator, line 5: documents Returns instead of Yields and a variable
   v it does not have; its docstring satisfies the short-description level
   and carries one style error *)
F3 == [EmptyFunction EXCEPT !.lineno = 5, !.has_yield = TRUE, !.docstring = [EmptyDoc EXCEPT !.returns = TRUE, !.variables = <<"v">>, !.satisfies = {SHORT_DESCRIPTION}, !.style_errors = <<StyleError>>]]

(* def f4(p), line 1: documents q and a variable w, docstring has the
   ignore-all noqa *)
F4 == [EmptyFunction EXCEPT !.lineno = 1, !.argument_names = <<"p">>, !.argument_types = <<NULL>>, !.docstring = [EmptyDoc EXCEPT !.arguments = <<Arg("q", "int")>>, !.variables = <<"w">>, !.ignore_all = TRUE]]

(* def f5(a), line 9: no docstring *)
F5 == [EmptyFunction EXCEPT !.lineno = 9, !.argument_names = <<"a">>, !.argument_types = <<NULL>>]

(* def f6(), line 11: a docstring the parser raises on *)
F6 == [EmptyFunction EXCEPT !.lineno = 11, !.docstring = [EmptyDoc EXCEPT !.malformed = TRUE]]

Catalogue == <<F1, F2, F3, F4, F5, F6>>

Configs == {Configuration({}, GOOGLE, FULL_DESCRIPTION), Configuration({ExcessVariableError, MissingParameterError}, SPHINX, SHORT_DESCRIPTION)}

(* a file with a docstring the parser raises on (f6) next to two sound
   ones *)
FaultCatalogue == <<F6, F1, F2>>

(* def g1(x: int, s: int), line 2, returns and does not yield: documents
   x: str, s: str and x: str once more, a Yields section and no Returns
   section; ParameterTypeMismatch noqa'd for s; one style error *)
G1 == [EmptyFunction EXCEPT !.lineno = 2, !.argument_names = <<"x", "s">>, !.argument_types = <<"int", "int">>, !.has_return = TRUE, !.docstring = [EmptyDoc EXCEPT !.arguments = <<Arg("x", "str"), Arg("s", "str"), Arg("x", "str")>>, !.yields = TRUE, !.noqas = [c \in {ParameterTypeMismatchError} |-> {"s"}], !.style_errors = <<StyleError>>]]

(* def g2(a, b: int), line 8, a generator without return: documents
   x: str and b: int, a Returns section and no Yields section, and a
   variable v it does not have; MissingParameter noqa'd for a, every
   ParameterTypeMismatch noqa'd *)
G2 == [EmptyFunction EXCEPT !.lineno = 8, !.argument_names = <<"a", "b">>, !.argument_types = <<NULL, "int">>, !.has_yield = TRUE, !.docstring = [EmptyDoc EXCEPT !.arguments = <<Arg("x", "str"), Arg("b", "int")>>, !.returns = TRUE, !.variables = <<"v">>, !.noqas = [c \in {MissingParameterError, ParameterTypeMismatchError} |-> IF c = MissingParameterError THEN {"a"} ELSE {}]]]

BatteryCatalogue == <<G1, G2>>

BatteryConfigs == {Configuration({}, SPHINX, SHORT_DESCRIPTION), Configuration({ParameterTypeMismatchError, MissingYieldError, ExcessReturnError, ExcessParameterError}, GOOGLE, FULL_DESCRIPTION)}

(* the FunctionDescriptions of the checked file, numbered in the order the
   caller holds them *)
(* a file with one function more than the pool has threads: four
   docstrings the parser raises on (lines 1, 3, 5, 7) and g2 *)
Q1 == [EmptyFunction EXCEPT !.lineno = 1, !.docstring = [EmptyDoc EXCEPT !.malformed = TRUE]]
Q2 == [EmptyFunction EXCEPT !.lineno = 3, !.docstring = [EmptyDoc EXCEPT !.malformed = TRUE]]
Q3 == [EmptyFunction EXCEPT !.lineno = 5, !.docstring = [EmptyDoc EXCEPT !.malformed = TRUE]]
Q4 == [EmptyFunction EXCEPT !.lineno = 7, !.docstring = [EmptyDoc EXCEPT !.malformed = TRUE]]

PoolCatalogue == <<Q1, Q2, Q3, Q4, G2>>

PoolConfigs == {Configuration({}, SPHINX, SHORT_DESCRIPTION)}

functions ==
    CASE program = "main" -> Catalogue
      [] program = "fault" -> FaultCatalogue
      [] program = "battery" -> BatteryCatalogue
      [] program = "pool" -> PoolCatalogue

(* how many schedule() calls a behaviour makes: every function of the
   pool file, MaxSched on the other files *)
sched_limit == IF program = "pool" THEN Len(PoolCatalogue) ELSE MaxSched

----------------------------------------------------------------------------
(* The suppression resolver *)

(* _ignore_error, lines 348-367: the code is ignored globally, or the noqa
   lookup has the code with no names. *)
_ignore_error(view, error_code) ==
    \/ error_code \in config.ignore
    \/ /\ error_code \in DOMAIN get_noqas(view)
       /\ get_noqas(view)[error_code] = {}

(* a noqa entry with names taken as suppressing every name *)
_remove_ignored_whole_code(view, missing, error_code) ==
    IF _ignore_error(view, error_code) THEN {}
    ELSE IF error_code \notin DOMAIN get_noqas(view) THEN missing
    ELSE {}

(* _remove_ignored, lines 369-394 *)
_remove_ignored(view, missing, error_code) ==
    IF _ignore_error(view, error_code) THEN {}
    ELSE IF error_code \notin DOMAIN get_noqas(view) THEN missing
    ELSE missing \ get_noqas(view)[error_code]

----------------------------------------------------------------------------
(* The battery.  Each check is given the view it reads from self.docstring
   and the function; it yields the sequences of findings it may append
   (more than one where the code iterates over a set). *)

NameFindings(code, f, names) ==
    {[i \in DOMAIN o |-> Finding(code, f, o[i], NULL, NULL)] : o \in Orders(names)}

(* the two set differences taken the wrong way round *)
_check_parameters_swapped(view, f) ==
    LET docstring_arguments == Range(get_items_arguments(view))
        actual_arguments == Range(functions[f].argument_names)
        missing_in_doc == _remove_ignored(view, docstring_arguments \ actual_arguments, MissingParameterError)
        missing_in_function == _remove_ignored(view, actual_arguments \ docstring_arguments, ExcessParameterError)
    IN  {m \o e : m \in NameFindings(MissingParameterError, f, missing_in_doc),
                  e \in NameFindings(ExcessParameterError, f, missing_in_function)}

(* _check_parameters, lines 274-320 *)
_check_parameters(view, f) ==
    LET docstring_arguments == Range(get_items_arguments(view))
        actual_arguments == Range(functions[f].argument_names)
        missing_in_doc == _remove_ignored(view, actual_arguments \ docstring_arguments, MissingParameterError)
        missing_in_function == _remove_ignored(view, docstring_arguments \ actual_arguments, ExcessParameterError)
    IN  {m \o e : m \in NameFindings(MissingParameterError, f, missing_in_doc),
                  e \in NameFindings(ExcessParameterError, f, missing_in_function)}

(* dict(zip(get_items, get_types)): a repeated name keeps its last type *)
argument_types(view, name) ==
    LET args == view.doc.arguments
        at == {i \in DOMAIN args : args[i].name = name}
    IN  IF at = {} THEN NULL
        ELSE args[CHOOSE i \in at : \A j \in at : j <= i].type

(* the keys of that dict, in insertion order *)
argument_keys(view) ==
    LET args == view.doc.arguments
    IN  SelectSeq([i \in DOMAIN args |-> [i |-> i, name |-> args[i].name]],
                  LAMBDA e : \A j \in 1..(e.i - 1) : args[j].name # e.name)

name_has_noqa(view, error_code, name) ==
    /\ error_code \in DOMAIN get_noqas(view)
    /\ name \in get_noqas(view)[error_code]

Min2(a, b) == IF a < b THEN a ELSE b

(* the finding built with the documented type as expected and the declared
   type as actual *)
RECURSIVE type_mismatches_swapped(_, _, _)
type_mismatches_swapped(view, f, i) ==
    LET fn == functions[f]
        name == fn.argument_names[i]
        expected == fn.argument_types[i]
        actual == argument_types(view, name)
    IN  IF i > Min2(Len(fn.argument_names), Len(fn.argument_types)) THEN <<>>
        ELSE (IF expected = NULL \/ actual = NULL THEN <<>>
              ELSE IF ~(expected = actual \/ name_has_noqa(view, ParameterTypeMismatchError, name))
                   THEN <<Finding(ParameterTypeMismatchError, f, name, actual, expected)>>
              ELSE <<>>) \o type_mismatches_swapped(view, f, i + 1)

RECURSIVE type_mismatches(_, _, _)
type_mismatches(view, f, i) ==
    LET fn == functions[f]
        name == fn.argument_names[i]
        expected == fn.argument_types[i]
        actual == argument_types(view, name)
    IN  IF i > Min2(Len(fn.argument_names), Len(fn.argument_types)) THEN <<>>
        ELSE (IF expected = NULL \/ actual = NULL THEN <<>>
              ELSE IF ~(expected = actual \/ name_has_noqa(view, ParameterTypeMismatchError, name))
                   THEN <<Finding(ParameterTypeMismatchError, f, name, expected, actual)>>
              ELSE <<>>) \o type_mismatches(view, f, i + 1)

(* _check_parameter_types, lines 132-174 *)
_check_parameter_types(view, f) ==
    IF _ignore_error(view, ParameterTypeMismatchError) THEN {<<>>}
    ELSE {type_mismatches(view, f, 1)}

RECURSIVE types_missing(_, _, _)
types_missing(view, f, i) ==
    LET keys == argument_keys(view)
        name == keys[i].name
    IN  IF i > Len(keys) THEN <<>>
        ELSE (IF argument_types(view, name) = NULL /\ ~name_has_noqa(view, ParameterTypeMissingError, name)
              THEN <<Finding(ParameterTypeMissingError, f, name, NULL, NULL)>>
              ELSE <<>>) \o types_missing(view, f, i + 1)

(* _check_parameter_types_missing, lines 176-207 *)
_check_parameter_types_missing(view, f) ==
    IF _ignore_error(view, ParameterTypeMissingError) THEN {<<>>}
    ELSE {types_missing(view, f, 1)}

(* get_types(RETURNS_SECTION) yielding a list of types *)
LIST == "list"

(* _check_return_type, lines 209-230 *)
_check_return_type(view, f) ==
    LET fun_type == functions[f].return_type
        doc_type == IF view.doc.return_type = LIST THEN NULL ELSE view.doc.return_type
    IN  IF _ignore_error(view, ReturnTypeMismatchError) THEN {<<>>}
        ELSE IF fun_type # NULL /\ doc_type # NULL /\ fun_type # doc_type
             THEN {<<Finding(ReturnTypeMismatchError, f, NULL, fun_type, doc_type)>>}
        ELSE {<<>>}

(* the yield check reading the unit's has_return flag *)
_check_yield_by_return(view, f) ==
    LET doc_yield == view.doc.yields
        fun_yield == functions[f].has_return
        ignore_missing == _ignore_error(view, MissingYieldError)
        ignore_excess == _ignore_error(view, ExcessYieldError)
    IN  IF fun_yield /\ ~doc_yield /\ ~ignore_missing
        THEN {<<Finding(MissingYieldError, f, NULL, NULL, NULL)>>}
        ELSE IF doc_yield /\ ~fun_yield /\ ~ignore_excess
             THEN {<<Finding(ExcessYieldError, f, NULL, NULL, NULL)>>}
        ELSE {<<>>}

(* _check_yield, lines 232-251 *)
_check_yield(view, f) ==
    LET doc_yield == view.doc.yields
        fun_yield == functions[f].has_yield
        ignore_missing == _ignore_error(view, MissingYieldError)
        ignore_excess == _ignore_error(view, ExcessYieldError)
    IN  IF fun_yield /\ ~doc_yield /\ ~ignore_missing
        THEN {<<Finding(MissingYieldError, f, NULL, NULL, NULL)>>}
        ELSE IF doc_yield /\ ~fun_yield /\ ~ignore_excess
             THEN {<<Finding(ExcessYieldError, f, NULL, NULL, NULL)>>}
        ELSE {<<>>}

(* _check_return, lines 253-272 *)
_check_return(view, f) ==
    LET doc_return == view.doc.returns
        fun_return == functions[f].has_return
        ignore_missing == _ignore_error(view, MissingReturnError)
        ignore_excess == _ignore_error(view, ExcessReturnError)
    IN  IF fun_return /\ ~doc_return /\ ~ignore_missing
        THEN {<<Finding(MissingReturnError, f, NULL, NULL, NULL)>>}
        ELSE IF doc_return /\ ~fun_return /\ ~ignore_excess
             THEN {<<Finding(ExcessReturnError, f, NULL, NULL, NULL)>>}
        ELSE {<<>>}

(* _check_variables, lines 322-346: no suppression is consulted *)
_check_variables(view, f) ==
    LET described_variables == Range(view.doc.variables)
        actual_variables == functions[f].variables
        excess_in_doc == described_variables \ actual_variables
    IN  NameFindings(ExcessVariableError, f, excess_in_doc)

(* _check_style, lines 396-402: no suppression is consulted *)
_check_style(view, f) ==
    LET style_errors == view.doc.style_errors
    IN  {[i \in DOMAIN style_errors |-> Finding(style_errors[i], f, NULL, NULL, NULL)]}

(* _check_raises, lines 404-446 *)
_check_raises(view, f) ==
    LET docstring_raises == Range(view.doc.raises)
        actual_raises == functions[f].raises
        missing_in_doc == _remove_ignored(view, actual_raises \ docstring_raises, MissingRaiseError)
        missing_in_function == _remove_ignored(view, docstring_raises \ actual_raises, ExcessRaiseError)
    IN  {m \o e : m \in NameFindings(MissingRaiseError, f, missing_in_doc),
                  e \in NameFindings(ExcessRaiseError, f, missing_in_function)}

----------------------------------------------------------------------------
(* The state machine *)

Fns == DOMAIN functions

RunningPcs == {"parse", "variables", "strictness", "ignore_all", "parameters", "parameter_types", "parameter_types_missing", "return", "return_type", "yield", "raises", "style"}

TypeOK ==
    /\ st \in [Fns -> {"unannounced", "scheduled", "done"} \cup RunningPcs]
    /\ Range(queue) \subseteq Fns
    /\ shutdown \in BOOLEAN
    /\ _sorted \in BOOLEAN
    /\ faults \subseteq Fns
    /\ caller \in {"open", "waiting", "returned"}
    /\ raise_errors \in BOOLEAN
    /\ nsched \in 0..sched_limit
    /\ Len(reports) <= MaxReports
    /\ rejected \subseteq Fns

(* __init__, lines 60-89 *)
InitWith(prog, catalogue, configs, strict) ==
    /\ program = prog
    /\ config \in configs
    /\ raise_errors \in strict
    /\ errors = <<>>
    /\ _sorted = TRUE
    /\ docstring = NoView
    /\ st = [f \in DOMAIN catalogue |-> "unannounced"]
    /\ queue = <<>>
    /\ shutdown = FALSE
    /\ faults = {}
    /\ caller = "open"
    /\ reports = <<>>
    /\ nsched = 0
    /\ rejected = {}

Init == InitWith("main", Catalogue, Configs, {FALSE})

(* a pool that keeps accepting work after shutdown *)
submit_never_rejected == FALSE

(* executor.submit raises RuntimeError once the executor is shut down *)
submit_rejected == shutdown

(* a schedule that submits without looking at function.docstring *)
schedule_unchecked(f) ==
    /\ nsched < sched_limit
    /\ st[f] = "unannounced"
    /\ nsched' = nsched + 1
    /\ IF submit_rejected
       THEN /\ rejected' = rejected \cup {f}
            /\ UNCHANGED <<st, queue>>
       ELSE /\ st' = [st EXCEPT ![f] = "scheduled"]
            /\ queue' = Append(queue, f)
            /\ UNCHANGED rejected
    /\ UNCHANGED <<program, config, raise_errors, errors, _sorted, docstring, shutdown, faults, caller, reports>>

(* schedule, lines 91-95 *)
schedule(f) ==
    /\ nsched < sched_limit
    /\ st[f] = "unannounced"
    /\ nsched' = nsched + 1
    /\ IF functions[f].docstring = NoDoc
       THEN UNCHANGED <<st, queue, rejected>>
       ELSE IF submit_rejected
            THEN /\ rejected' = rejected \cup {f}
                 /\ UNCHANGED <<st, queue>>
            ELSE /\ st' = [st EXCEPT ![f] = "scheduled"]
                 /\ queue' = Append(queue, f)
                 /\ UNCHANGED rejected
    /\ UNCHANGED <<program, config, raise_errors, errors, _sorted, docstring, shutdown, faults, caller, reports>>

(* a pool thread takes the oldest work item; the pool has max_workers
   threads (line 89) *)
start_run_unbounded(f) ==
    /\ queue # <<>>
    /\ f = Head(queue)
    /\ queue' = Tail(queue)
    /\ st' = [st EXCEPT ![f] = "parse"]
    /\ UNCHANGED <<program, config, raise_errors, errors, _sorted, docstring, shutdown, faults, caller, reports, nsched, rejected>>

start_run(f) ==
    /\ queue # <<>>
    /\ f = Head(queue)
    /\ Cardinality({g \in Fns : st[g] \in RunningPcs}) < max_workers
    /\ queue' = Tail(queue)
    /\ st' = [st EXCEPT ![f] = "parse"]
    /\ UNCHANGED <<program, config, raise_errors, errors, _sorted, docstring, shutdown, faults, caller, reports, nsched, rejected>>

(* an exception leaves run_checks: the run is over, the future keeps it *)
raise(f) ==
    /\ st' = [st EXCEPT ![f] = "done"]
    /\ faults' = faults \cup {f}

(* line 115: the strictness test is skipped for FULL_DESCRIPTION *)
after_parse == IF config.strictness # FULL_DESCRIPTION THEN "strictness" ELSE "ignore_all"

(* a parse that resets self.docstring before the parser raises *)
parse_resets_on_fault(f) ==
    /\ st[f] = "parse"
    /\ IF functions[f].docstring.malformed
       THEN raise(f) /\ docstring' = NoView
       ELSE /\ docstring' = IF config.style = GOOGLE THEN from_google(f, functions[f].docstring) ELSE from_sphinx(f, functions[f].docstring)
            /\ st' = [st EXCEPT ![f] = IF config.style = SPHINX THEN "variables" ELSE after_parse]
            /\ UNCHANGED faults
    /\ UNCHANGED <<program, config, raise_errors, errors, _sorted, queue, shutdown, caller, reports, nsched, rejected>>

(* run_checks, lines 105-113: build the view and store it in self.docstring *)
parse(f) ==
    /\ st[f] = "parse"
    /\ IF functions[f].docstring = NoDoc
       THEN /\ st' = [st EXCEPT ![f] = "done"]
            /\ UNCHANGED <<docstring, faults>>
       ELSE IF config.style \in {GOOGLE, SPHINX} /\ functions[f].docstring.malformed
       THEN raise(f) /\ UNCHANGED docstring
       ELSE /\ docstring' = IF config.style = GOOGLE THEN from_google(f, functions[f].docstring)
                            ELSE IF config.style = SPHINX THEN from_sphinx(f, functions[f].docstring)
                            ELSE docstring
            /\ st' = [st EXCEPT ![f] = IF config.style = SPHINX THEN "variables" ELSE after_parse]
            /\ UNCHANGED faults
    /\ UNCHANGED <<program, config, raise_errors, errors, _sorted, queue, shutdown, caller, reports, nsched, rejected>>

(* a check that stores its findings in place of the collection *)
check_overwrite(f, here, next, results) ==
    /\ st[f] = here
    /\ IF docstring = NoView
       THEN raise(f) /\ UNCHANGED errors
       ELSE /\ \E r \in results : errors' = r
            /\ st' = [st EXCEPT ![f] = next]
            /\ UNCHANGED faults
    /\ UNCHANGED <<program, config, raise_errors, docstring, queue, shutdown, caller, reports, nsched, rejected>>

(* one check of the battery: read self.docstring, append the findings *)
check(f, here, next, results) ==
    /\ st[f] = here
    /\ IF docstring = NoView
       THEN raise(f) /\ UNCHANGED errors
       ELSE /\ \E r \in results : errors' = errors \o r
            /\ st' = [st EXCEPT ![f] = next]
            /\ UNCHANGED faults
    /\ UNCHANGED <<program, config, raise_errors, docstring, queue, shutdown, caller, reports, nsched, rejected>>

(* line 114 *)
check_variables(f) ==
    /\ check(f, "variables", after_parse, _check_variables(docstring, f))
    /\ UNCHANGED _sorted

(* lines 115-119 *)
strictness(f) ==
    /\ st[f] = "strictness"
    /\ IF docstring = NoView
       THEN raise(f)
       ELSE /\ st' = [st EXCEPT ![f] = IF config.strictness \in docstring.doc.satisfies THEN "done" ELSE "ignore_all"]
            /\ UNCHANGED faults
    /\ UNCHANGED <<program, config, raise_errors, errors, _sorted, docstring, queue, shutdown, caller, reports, nsched, rejected>>

(* lines 120-121 *)
ignore_all(f) ==
    /\ st[f] = "ignore_all"
    /\ IF docstring = NoView
       THEN raise(f)
       ELSE /\ st' = [st EXCEPT ![f] = IF docstring.doc.ignore_all THEN "done" ELSE "parameters"]
            /\ UNCHANGED faults
    /\ UNCHANGED <<program, config, raise_errors, errors, _sorted, docstring, queue, shutdown, caller, reports, nsched, rejected>>

(* lines 122-128 *)
check_parameters(f) ==
    /\ check(f, "parameters", "parameter_types", _check_parameters(docstring, f))
    /\ UNCHANGED _sorted

check_parameter_types(f) ==
    /\ check(f, "parameter_types", "parameter_types_missing", _check_parameter_types(docstring, f))
    /\ UNCHANGED _sorted

check_parameter_types_missing(f) ==
    /\ check(f, "parameter_types_missing", "return", _check_parameter_types_missing(docstring, f))
    /\ UNCHANGED _sorted

check_return(f) ==
    /\ check(f, "return", "return_type", _check_return(docstring, f))
    /\ UNCHANGED _sorted

check_return_type(f) ==
    /\ check(f, "return_type", "yield", _check_return_type(docstring, f))
    /\ UNCHANGED _sorted

check_yield(f) ==
    /\ check(f, "yield", "raises", _check_yield(docstring, f))
    /\ UNCHANGED _sorted

check_raises(f) ==
    /\ check(f, "raises", "style", _check_raises(docstring, f))
    /\ UNCHANGED _sorted

(* lines 129-130: the style findings, then self._sorted = False *)
check_style(f) ==
    /\ check(f, "style", "done", _check_style(docstring, f))
    /\ _sorted' = IF docstring = NoView THEN _sorted ELSE FALSE

(* shutdown(wait=False): return at once *)
executor_joined_nowait == TRUE

(* shutdown that waits for the started runs only, not the queued ones *)
executor_joined_started_only == \A f \in Fns : st[f] \notin RunningPcs

(* executor.shutdown() returns when every submitted run is over
   (wait defaults to True) *)
executor_joined == \A f \in Fns : st[f] \notin {"scheduled"} \cup RunningPcs

(* get_error_report, line 456: shut the pool down and wait *)
get_error_report_call ==
    /\ caller # "waiting"
    /\ Len(reports) < MaxReports
    /\ shutdown' = TRUE
    /\ caller' = "waiting"
    /\ UNCHANGED <<program, config, raise_errors, errors, _sorted, docstring, st, queue, faults, reports, nsched, rejected>>

(* get_error_report, lines 457-462: hand self.errors to the report *)
get_error_report_return ==
    /\ caller = "waiting"
    /\ executor_joined
    /\ reports' = Append(reports, errors)
    /\ caller' = "returned"
    /\ UNCHANGED <<program, config, raise_errors, errors, _sorted, docstring, st, queue, shutdown, faults, nsched, rejected>>

Next ==
    \/ \E f \in Fns : schedule(f)
    \/ \E f \in Fns : start_run(f)
    \/ \E f \in Fns : parse(f)
    \/ \E f \in Fns : check_variables(f)
    \/ \E f \in Fns : strictness(f)
    \/ \E f \in Fns : ignore_all(f)
    \/ \E f \in Fns : check_parameters(f)
    \/ \E f \in Fns : check_parameter_types(f)
    \/ \E f \in Fns : check_parameter_types_missing(f)
    \/ \E f \in Fns : check_return(f)
    \/ \E f \in Fns : check_return_type(f)
    \/ \E f \in Fns : check_yield(f)
    \/ \E f \in Fns : check_raises(f)
    \/ \E f \in Fns : check_style(f)
    \/ get_error_report_call
    \/ get_error_report_return

Spec == Init /\ [][Next]_vars

(* The pool threads keep running and the thread blocked in shutdown() goes
   on once the pool has joined: every step of a run, the start of a queued
   run and the return of get_error_report are taken when they stay
   possible.  No schedule or get_error_report call is ever forced. *)
Fair(ids) ==
    /\ \A f \in ids : WF_vars(start_run(f)) /\ WF_vars(parse(f)) /\ WF_vars(check_variables(f))
    /\ \A f \in ids : WF_vars(strictness(f)) /\ WF_vars(ignore_all(f)) /\ WF_vars(check_parameters(f))
    /\ \A f \in ids : WF_vars(check_parameter_types(f)) /\ WF_vars(check_parameter_types_missing(f))
    /\ \A f \in ids : WF_vars(check_return(f)) /\ WF_vars(check_return_type(f)) /\ WF_vars(check_yield(f))
    /\ \A f \in ids : WF_vars(check_raises(f)) /\ WF_vars(check_style(f))
    /\ WF_vars(get_error_report_return)

(* the same file checked by a checker whose configuration may name a style
   that is neither GOOGLE nor SPHINX: __init__ stores any configuration *)
StyleConfigs == Configs \cup {Configuration({}, OTHER_STYLE, FULL_DESCRIPTION), Configuration({}, OTHER_STYLE, SHORT_DESCRIPTION)}

InitStyle == InitWith("fault", FaultCatalogue, StyleConfigs, {FALSE})

SpecStyle == InitStyle /\ [][Next]_vars

(* a file whose two functions exercise the parameter, type, return and
   yield checks *)
InitBattery == InitWith("battery", BatteryCatalogue, BatteryConfigs, {FALSE})

SpecBattery == InitBattery /\ [][Next]_vars

(* a file with a malformed docstring, checked with raise_errors off or on *)
InitFault == InitWith("fault", FaultCatalogue, Configs, BOOLEAN)

SpecFault == InitFault /\ [][Next]_vars

FairSpecFault == InitFault /\ [][Next]_vars /\ Fair(DOMAIN FaultCatalogue)

(* the file with more functions than pool threads *)
InitPool == InitWith("pool", PoolCatalogue, PoolConfigs, {FALSE})

FairSpecPool == InitPool /\ [][Next]_vars /\ Fair(DOMAIN PoolCatalogue)

----------------------------------------------------------------------------
(* Vocabulary of the properties *)

lineno(e) == functions[e.function].lineno

Owned(f, seq) == SelectSeq(seq, LAMBDA e : e.function = f)

Names(seq, code) == {seq[i].name : i \in {j \in DOMAIN seq : seq[j].code = code}}

(* the runs that are over, and the positions at which a run reads
   self.docstring *)
Over == {f \in Fns : st[f] = "done"}
ReadPcs == RunningPcs \ {"parse"}

(* stable sort by the owning function's line number *)
InsertByLineno(s, e) ==
    LET k == Cardinality({i \in DOMAIN s : lineno(s[i]) <= lineno(e)})
    IN  SubSeq(s, 1, k) \o <<e>> \o SubSeq(s, k + 1, Len(s))

RECURSIVE StableSort(_)
StableSort(s) ==
    IF s = <<>> THEN <<>>
    ELSE InsertByLineno(StableSort(SubSeq(s, 1, Len(s) - 1)), s[Len(s)])

(* the view run_checks builds from the function's own docstring *)
own_view(f) ==
    IF config.style = GOOGLE THEN from_google(f, functions[f].docstring)
    ELSE from_sphinx(f, functions[f].docstring)

(* the whole battery, lines 122-129, against one view *)
battery(view, f) ==
    {p \o t \o m \o r \o rt \o y \o ra \o sy :
        p \in _check_parameters(view, f), t \in _check_parameter_types(view, f),
        m \in _check_parameter_types_missing(view, f), r \in _check_return(view, f),
        rt \in _check_return_type(view, f), y \in _check_yield(view, f),
        ra \in _check_raises(view, f), sy \in _check_style(view, f)}

short_circuits(view) ==
    \/ config.strictness # FULL_DESCRIPTION /\ config.strictness \in view.doc.satisfies
    \/ view.doc.ignore_all

(* what run_checks appends for f when no other run is in the pool *)
run_alone(f) ==
    IF functions[f].docstring.malformed THEN {<<>>}
    ELSE {v \o b :
            v \in (IF config.style = SPHINX THEN _check_variables(own_view(f), f) ELSE {<<>>}),
            b \in (IF short_circuits(own_view(f)) THEN {<<>>} ELSE battery(own_view(f), f))}

(* Section 4.1 of the specification: is_kind_suppressed, filter_suppressed *)
is_kind_suppressed(view, code) ==
    \/ code \in config.ignore
    \/ code \in DOMAIN view.doc.noqas /\ view.doc.noqas[code] = {}

filter_suppressed(view, code, candidate_names) ==
    IF is_kind_suppressed(view, code) THEN {}
    ELSE IF code \in DOMAIN view.doc.noqas /\ view.doc.noqas[code] # {}
         THEN candidate_names \ view.doc.noqas[code]
    ELSE candidate_names

(* the findings a step appended *)
Appended == SubSeq(errors', Len(errors) + 1, Len(errors'))

----------------------------------------------------------------------------
(* Properties *)

(* C1: the finding list get_error_report hands to the report is ordered by
   the owning function's line number, findings of equal line number in
   discovery order: it is the stable sort of the errors discovered. *)
C1_ReportOrderedByLineno ==
    \A i \in DOMAIN reports : reports[i] = StableSort(reports[i])

(* C2: when every scheduled function, checked alone, yields exactly one
   finding, then after get_error_report the collection holds exactly one
   finding per scheduled function, the one that function yields alone. *)
C2_OneFindingPerUnit ==
    (caller = "returned" /\ \A f \in Over : \A s \in run_alone(f) : Len(s) = 1)
        => /\ Len(errors) = Cardinality(Over)
           /\ \A f \in Over : Owned(f, errors) \in run_alone(f)

(* C3: whenever the run of f is about to read self.docstring (the
   strictness test, the ignore-all test, any check), the field holds the
   view that run built from f's own docstring. *)
C3_RunReadsOwnView ==
    \A f \in Fns : st[f] \in ReadPcs => docstring.src = f

(* C4: once get_error_report has returned, no submitted run is still
   scheduled or running. *)
C4_ReportAfterAllRunsDone ==
    caller = "returned" => \A f \in Fns : st[f] \in {"unannounced", "done"}

C4_Witness ==
    /\ caller = "returned"
    /\ Cardinality(Over) >= 2
    /\ Len(errors) >= 2

(* C5: no finding whose code is in the global ignore list is ever in the
   collection. *)
C5_NoIgnoredCodeInCollection ==
    \A i \in DOMAIN errors : errors[i].code \notin config.ignore

(* C6: the names for which _check_parameters appends MissingParameter and
   ExcessParameter findings are the candidate names filtered as Section 4.1
   composes it (nothing when the code is ignored globally or noqa'd without
   names, the candidates minus the noqa'd names otherwise), one finding per
   name; with parameters a and b, nothing documented and MissingParameter
   noqa'd for a, exactly one finding is appended, for b. *)
C6_FilterComposes ==
    [][\A f \in Fns : (st[f] = "parameters" /\ st'[f] = "parameter_types") =>
        LET D == Range(get_items_arguments(docstring))
            A == Range(functions[f].argument_names)
            missing == filter_suppressed(docstring, MissingParameterError, A \ D)
            excess == filter_suppressed(docstring, ExcessParameterError, D \ A)
        IN  /\ Names(Appended, MissingParameterError) = missing
            /\ Names(Appended, ExcessParameterError) = excess
            /\ Len(Appended) = Cardinality(missing) + Cardinality(excess)
            /\ \A i \in DOMAIN Appended : Appended[i].function = f
            /\ (A = {"a", "b"} /\ D = {} /\ MissingParameterError \notin config.ignore
                  /\ MissingParameterError \in DOMAIN docstring.doc.noqas
                  /\ docstring.doc.noqas[MissingParameterError] = {"a"})
               => Appended = <<Finding(MissingParameterError, f, "b", NULL, NULL)>>]_vars

C6_Witness ==
    /\ st[1] = "parameter_types"
    /\ docstring.src = 1
    /\ MissingParameterError \notin config.ignore
    /\ errors = <<Finding(MissingParameterError, 1, "b", NULL, NULL)>>

(* C7: a run whose function's own docstring satisfies a configured
   strictness below full description ends with no finding appended for that
   function. *)
C7_StrictnessShortCircuit ==
    \A f \in Over :
        (f \notin faults /\ config.strictness # FULL_DESCRIPTION
            /\ config.strictness \in own_view(f).doc.satisfies)
        => Owned(f, errors) = <<>>

(* C8: a run whose function's own docstring has the ignore-all flag ends
   with no finding appended for that function. *)
C8_IgnoreAllShortCircuit ==
    \A f \in Over :
        (f \notin faults /\ own_view(f).doc.ignore_all) => Owned(f, errors) = <<>>

(* C9: every call of get_error_report hands over the same findings in the
   same order as the call before it (a schedule call in between is refused
   or a no-op, so none can add a run). *)
C9_ReportIdempotent ==
    \A i \in DOMAIN reports : \A j \in DOMAIN reports : reports[i] = reports[j]

C9_Witness ==
    /\ Len(reports) >= 2
    /\ Len(reports[2]) >= 2
    /\ reports[2] # StableSort(reports[2])

(* C10: once get_error_report has been called, a schedule call is refused:
   it submits no run, moves no function out of Unannounced and leaves the
   collection as it is. *)
C10_ClosedAfterReport ==
    [][(caller # "open" /\ nsched' # nsched) =>
        /\ st' = st
        /\ queue' = queue
        /\ errors' = errors
        /\ rejected \subseteq rejected'
        /\ \A f \in rejected' : st'[f] = "unannounced"]_vars

C10_Witness ==
    /\ caller = "returned"
    /\ rejected # {}
    /\ \A f \in rejected : functions[f].docstring # NoDoc /\ st[f] = "unannounced"

(* C11: a run whose docstring the parser raises on ends without a finding
   of its own and without touching self.errors, self.docstring or any other
   run, so the other runs proceed as they would without it; every submitted
   run reaches Done and a get_error_report that is waiting returns. *)
C11_FaultIsolated ==
    /\ [](\A f \in faults : Owned(f, errors) = <<>>)
    /\ [][\A f \in faults' \ faults :
            /\ errors' = errors /\ docstring' = docstring /\ _sorted' = _sorted
            /\ queue' = queue /\ st'[f] = "done"
            /\ \A g \in Fns \ {f} : st'[g] = st[g]]_vars
    /\ \A f \in DOMAIN FaultCatalogue : (st[f] \in {"scheduled"} \cup RunningPcs) ~> (st[f] = "done")
    /\ (caller = "waiting") ~> (caller = "returned")

C11_Witness ==
    /\ program = "fault" /\ ~raise_errors
    /\ caller = "returned"
    /\ faults = {1}
    /\ Owned(2, errors) = <<Finding(MissingParameterError, 2, "b", NULL, NULL)>>

(* C12: with raise_errors set, get_error_report does not return normally
   once the parser has raised in some run: the fault leaves the call. *)
C12_StrictModePropagates ==
    (raise_errors /\ faults # {}) => caller # "returned"

(* C13: a checker whose configured style is neither GOOGLE nor SPHINX is
   refused at construction, so under such a style no function is ever
   scheduled and no run ever starts. *)
C13_UnsupportedStyleRejected ==
    config.style \notin {GOOGLE, SPHINX} => \A f \in Fns : st[f] = "unannounced"

(* C14: a function without docstring never leaves Unannounced and is
   never queued, and every finding in the collection is owned by a function
   that has a docstring and whose run was started. *)
C14_UndocumentedNeverScheduled ==
    /\ \A f \in Fns : functions[f].docstring = NoDoc => (st[f] = "unannounced" /\ f \notin Range(queue))
    /\ \A i \in DOMAIN errors :
        /\ functions[errors[i].function].docstring # NoDoc
        /\ st[errors[i].function] \notin {"unannounced", "scheduled"}

(* two schedule calls were made on the open checker, one run was
   submitted: the other call was the no-op for an undocumented function *)
C14_Witness ==
    /\ caller = "open" /\ nsched = 2
    /\ Cardinality({f \in Fns : st[f] # "unannounced"}) = 1
    /\ errors # <<>>

(* a name is left unsuppressed for a code: the code is not ignored
   globally and the noqa lookup, if it has the code, names other names *)
Unsuppressed(view, code, name) ==
    /\ code \notin config.ignore
    /\ code \in DOMAIN view.doc.noqas => (view.doc.noqas[code] # {} /\ name \notin view.doc.noqas[code])

(* C15: when the documented argument names and the actual parameter names
   are equal as sets (a name documented twice counts once),
   _check_parameters appends nothing; in general it appends one
   MissingParameter finding for each unsuppressed name of actual minus
   documented, one ExcessParameter finding for each unsuppressed name of
   documented minus actual, and nothing else. *)
C15_ParameterPresence ==
    [][\A f \in Fns : (st[f] = "parameters" /\ st'[f] = "parameter_types") =>
        LET D == Range(get_items_arguments(docstring))
            A == Range(functions[f].argument_names)
        IN  /\ D = A => Appended = <<>>
            /\ \A n \in A \cup D :
                /\ Finding(MissingParameterError, f, n, NULL, NULL) \in Range(Appended)
                     <=> (n \in A \ D /\ Unsuppressed(docstring, MissingParameterError, n))
                /\ Finding(ExcessParameterError, f, n, NULL, NULL) \in Range(Appended)
                     <=> (n \in D \ A /\ Unsuppressed(docstring, ExcessParameterError, n))
            /\ \A i \in DOMAIN Appended :
                /\ Appended[i].code \in {MissingParameterError, ExcessParameterError}
                /\ Appended[i].function = f /\ Appended[i].name \in A \cup D
                /\ \A j \in DOMAIN Appended : Appended[j] = Appended[i] => j = i]_vars

(* g1's run has passed _check_parameters on its own view, which documents
   x twice: nothing was appended; g2's run has reported its excess x *)
C15_Witness ==
    /\ program = "battery" /\ config.style = SPHINX
    /\ st[1] = "parameter_types" /\ docstring.src = 1 /\ Owned(1, errors) = <<>>
    /\ st[2] = "done" /\ Finding(ExcessParameterError, 2, "x", NULL, NULL) \in Range(errors)
    /\ Names(Owned(2, errors), MissingParameterError) = {}

(* the type the view documents for a name: that of its last entry in the
   Arguments section, None when the name is not documented *)
DocumentedType(view, name) ==
    LET args == view.doc.arguments
    IN  IF \A i \in DOMAIN args : args[i].name # name THEN NULL
        ELSE LET last == CHOOSE i \in DOMAIN args : args[i].name = name /\ \A j \in DOMAIN args : j > i => args[j].name # name
             IN  args[last].type

(* C16: _check_parameter_types appends a ParameterTypeMismatch finding for
   an actual parameter exactly when its declared and its documented type
   are both present and differ, the code is not suppressed as a kind
   (ignored globally, or noqa'd without names) and the name is not among
   the names noqa'd for the code; the finding carries the declared type as
   expected and the documented type as actual; nothing else is appended. *)
C16_ParameterTypeMismatch ==
    [][\A f \in Fns : (st[f] = "parameter_types" /\ st'[f] = "parameter_types_missing") =>
        LET names == functions[f].argument_names
            types == functions[f].argument_types
            Due(i) == /\ types[i] # NULL /\ DocumentedType(docstring, names[i]) # NULL
                      /\ types[i] # DocumentedType(docstring, names[i])
                      /\ ~is_kind_suppressed(docstring, ParameterTypeMismatchError)
                      /\ ~(ParameterTypeMismatchError \in DOMAIN docstring.doc.noqas
                             /\ names[i] \in docstring.doc.noqas[ParameterTypeMismatchError])
            ItsFinding(i) == Finding(ParameterTypeMismatchError, f, names[i], types[i], DocumentedType(docstring, names[i]))
        IN  /\ \A i \in DOMAIN names : Due(i) <=> ItsFinding(i) \in Range(Appended)
            /\ \A k \in DOMAIN Appended : \E i \in DOMAIN names : Due(i) /\ Appended[k] = ItsFinding(i)
            /\ Len(Appended) = Cardinality({i \in DOMAIN names : Due(i)})]_vars

(* g1 (x: int documented as str, s noqa'd) has passed the check on its own
   view: one finding, for x, expected int, actual str *)
C16_Witness ==
    /\ program = "battery" /\ config.style = SPHINX
    /\ st[1] = "parameter_types_missing" /\ docstring.src = 1
    /\ errors = <<Finding(ParameterTypeMismatchError, 1, "x", "int", "str")>>

(* what a presence check of the pair (code, doc) is to append: nothing when
   the two agree, the Missing finding when only the code has it and the
   Missing code is not suppressed, the Excess finding when only the
   documentation has it and the Excess code is not suppressed *)
PresenceFindings(view, f, code, doc, missing, excess) ==
    IF code /\ ~doc /\ ~is_kind_suppressed(view, missing) THEN <<Finding(missing, f, NULL, NULL, NULL)>>
    ELSE IF doc /\ ~code /\ ~is_kind_suppressed(view, excess) THEN <<Finding(excess, f, NULL, NULL, NULL)>>
    ELSE <<>>

(* C17: for each of the pairs (has_return, Returns section) and (has_yield,
   Yields section) the run appends at most one finding: none when the two
   agree, the Missing finding exactly when the code has it, the
   documentation has not and the Missing code is not suppressed, the Excess
   finding exactly when the documentation has it, the code has not and the
   Excess code is not suppressed. *)
C17_ReturnYieldPresence ==
    [][\A f \in Fns :
        /\ (st[f] = "return" /\ st'[f] = "return_type") =>
              /\ Len(Appended) <= 1
              /\ Appended = PresenceFindings(docstring, f, functions[f].has_return, docstring.doc.returns, MissingReturnError, ExcessReturnError)
        /\ (st[f] = "yield" /\ st'[f] = "raises") =>
              /\ Len(Appended) <= 1
              /\ Appended = PresenceFindings(docstring, f, functions[f].has_yield, docstring.doc.yields, MissingYieldError, ExcessYieldError)]_vars

(* g2 (has_yield, no return, Returns documented, Yields not) has run both
   checks on its own view and got exactly ExcessReturn and MissingYield *)
C17_Witness ==
    /\ program = "battery" /\ config.style = SPHINX
    /\ st[2] = "raises" /\ docstring.src = 2
    /\ functions[2].has_yield /\ ~functions[2].has_return
    /\ docstring.doc.returns /\ ~docstring.doc.yields
    /\ SelectSeq(errors, LAMBDA e : e.code \in {MissingReturnError, ExcessReturnError, MissingYieldError, ExcessYieldError})
         = <<Finding(ExcessReturnError, 2, NULL, NULL, NULL), Finding(MissingYieldError, 2, NULL, NULL, NULL)>>

(* the place in the battery of the check that appends findings of a code:
   parameters, parameter types, parameter type presence, return, return
   type, yield, raises, style (run_checks, lines 122-129) *)
BatteryPlace(code) ==
    CASE code \in {MissingParameterError, ExcessParameterError} -> 1
      [] code = ParameterTypeMismatchError -> 2
      [] code = ParameterTypeMissingError -> 3
      [] code \in {MissingReturnError, ExcessReturnError} -> 4
      [] code = ReturnTypeMismatchError -> 5
      [] code \in {MissingYieldError, ExcessYieldError} -> 6
      [] code \in {MissingRaiseError, ExcessRaiseError} -> 7
      [] code = StyleError -> 8

(* the findings of f that the eight checks of lines 122-129 appended come
   in the order of those checks *)
EightChecksInOrder ==
    \A f \in Fns :
        LET own == SelectSeq(Owned(f, errors), LAMBDA e : e.code # ExcessVariableError)
        IN  \A i, j \in DOMAIN own : i < j => BatteryPlace(own[i].code) <= BatteryPlace(own[j].code)

(* C18: the findings of one function are in the collection in the battery
   order parameters, parameter types, parameter type presence, return,
   return type, yield, raises, style, the excess-variable findings of the
   Sphinx style included: the battery opens with the parameters check, so
   no excess-variable finding of a function precedes a parameters finding
   of that function, and the findings of the eight checks come in their
   order. *)
C18_BatteryOrder ==
    /\ EightChecksInOrder
    /\ \A f \in Fns :
        LET own == Owned(f, errors)
        IN  \A i, j \in DOMAIN own :
                (i < j /\ own[j].code \in {MissingParameterError, ExcessParameterError})
                => own[i].code # ExcessVariableError

(* how many times a finding occurs in a sequence of findings *)
Count(e, seq) == Cardinality({i \in DOMAIN seq : seq[i] = e})

(* C19: the collection is append-only across every step (schedule, each
   step of each run, get_error_report and its repetition): every finding
   occurs after the step at least as often as before it, unchanged, so the
   multiset of findings only grows. *)
C19_AppendOnly ==
    [][\A e \in Range(errors) : Count(e, errors') >= Count(e, errors)]_vars

(* findings of two runs are in the collection, handed over unchanged by
   two reports *)
C19_Witness ==
    /\ Len(reports) >= 2
    /\ Cardinality({errors[i].function : i \in DOMAIN errors}) >= 2
    /\ reports[1] = errors

(* the runs a pool thread is executing *)
Running == {f \in Fns : st[f] \in RunningPcs}

(* C20: the pool has a fixed size: at most max_workers runs are in Running
   at once, every other scheduled function waits in Scheduled (in the work
   queue, once), a function is run once (a run that is over stays over and
   a run starts only from Scheduled), and every scheduled function
   eventually reaches Done. *)
C20_BoundedPool ==
    /\ [](Cardinality(Running) <= max_workers)
    /\ []({f \in Fns : st[f] = "scheduled"} = Range(queue) /\ Len(queue) = Cardinality(Range(queue)))
    /\ [][\A f \in Fns : /\ st[f] = "done" => st'[f] = "done"
                         /\ st[f] \in RunningPcs => st'[f] \in RunningPcs \cup {"done"}
                         /\ (st'[f] = "parse" /\ st[f] # "parse") => st[f] = "scheduled"]_vars
    /\ \A f \in DOMAIN PoolCatalogue : (st[f] = "scheduled") ~> (st[f] = "done")

(* max_workers runs are in Running and a fifth scheduled function waits *)
C20_Witness ==
    /\ program = "pool"
    /\ Cardinality(Running) = max_workers
    /\ queue # <<>>
    /\ st[Head(queue)] = "scheduled"

====
